---- MODULE Spec2Model ----
(***************************************************************************)
(* A model of the quais wallet subsystem:                                  *)
(*   - WebSocketProvider (src/src/wallet/quai-hdwallet.ts, 376-497): the   *)
(*     per-shard channels, their readiness flags, writes and destroy;      *)
(*   - HDNodeWallet.deriveAddress (src/lib.esm/wallet/hdwallet.js);        *)
(*   - QuaiHDWallet (src/src/wallet/quai-hdwallet.ts, 44-330).             *)
(* JavaScript runs each callback to completion, so one action is one       *)
(* callback: a handler up to its next await, or a timer with the           *)
(* continuations it resumes.                                               *)
(***************************************************************************)
EXTENDS Integers, Sequences, FiniteSets, TLC

\* ------------------------------------------------------------------------
\* Bounds of the model
\* ------------------------------------------------------------------------
MaxUrls == 2
MaxSeed == 63
MaxWalletSeed == 3
MaxAccount == 1
MaxAddrIndex == 3
MaxZoneIndex == 1

\* ------------------------------------------------------------------------
\* Shards (the Shard enumeration, by byte)
\* ------------------------------------------------------------------------
Prime == "0x"
RunningLocations == <<"0x00">>
Shards == {Prime} \cup {RunningLocations[i] : i \in 1..Len(RunningLocations)}
NoShard == "none"
\* The _write calls in flight. A call reads the provider's state and writes
\* only its own locals, so calls do not affect one another: the model
\* follows one at a time.
Writers == {1}

VARIABLES
    websockets,   \* #websockets: the list of channels (ids into chans)
    chans,        \* every WebSocketLike created so far, in creation order
    readyMap,     \* readyMap: shard -> "unset" | "true" | "false"
    urlMap,       \* _urlMap: shard -> channel id, 0 when the shard has no entry
    init,         \* the initUrlMap promise and its readiness waits
    writers,      \* the _write calls
    destroyed,    \* history: destroy() has run
    seed,         \* the seed (mnemonic) every node of the wallet derives from
    node,         \* the HDNodeWallet deriveAddress is called on
    dv,           \* the deriveAddress call: its arguments, locals and outcome
    addresses,    \* QuaiHDWallet._addresses: the NeuteredAddressInfo entries
    last,         \* history: the last wallet call, its arguments and outcome
    imp,          \* QuaiHDWallet.deserialize: the wallet it builds, its outcome
    walletProvider, \* QuaiHDWallet.provider: TRUE when a provider is set
    hd,           \* an HD node (HDNodeWallet / HDNodeVoidWallet) and the call made on it
    fx,           \* a call of a static function: its arguments and its outcome
    qi            \* the Qi ledger, the outpoints of its wallets, their sends

pvars == <<websockets, chans, readyMap, urlMap, init, writers, destroyed>>

dvars == <<seed, node, dv>>

wvars == <<addresses, last, imp>>

xvars == <<walletProvider, hd, fx, qi>>

vars == <<websockets, chans, readyMap, urlMap, init, writers, destroyed,
          seed, node, dv, addresses, last, imp, walletProvider, hd, fx, qi>>

\* ------------------------------------------------------------------------
\* WebSocketProvider: helpers
\* ------------------------------------------------------------------------
BackoffCap == 7

\* while (!this.readyMap.get(shard))
ShardReadyNoCheck(shard) == TRUE
ShardReady(shard) == readyMap[shard] = "true"

\* setTimeout(resolve, Math.pow(2, count))
DelayLinear(count) == count + 1
Delay(count) == 2 ^ count

\* if (count > 7) throw new Error('Timeout waiting for shard to be ready')
TimedOut(count) == count > BackoffCap

\* new _WebSocket(url) followed by initWebSocket(websocket, shard)
NewSocket(shard) == [shard |-> shard, state |-> "connecting", hs |-> "none"]

\* One wake-up of waitShardReady's loop after its timer fired:
\* "timeout", "ready" or "sleep" (with count + 1).
WaitWakeIgnoresFlag(shard, count) ==
    IF TimedOut(count) THEN "timeout" ELSE "ready"
WaitWake(shard, count) ==
    IF TimedOut(count) THEN "timeout"
    ELSE IF ShardReady(shard) THEN "ready"
    ELSE "sleep"

\* The first test of waitShardReady's loop, before any timer.
WaitEnter(shard) == IF ShardReady(shard) THEN "ready" ELSE "sleep"

\* get websocket(): throws when the list is null, which the constructor
\* and destroy() never leave it.
WebsocketGetter == websockets

\* const websocket = shard ? this._urlMap.get(shard)
\*                         : this.websocket[this.websocket.length - 1]
TargetSocket(shard) ==
    IF shard # NoShard THEN urlMap[shard]
    ELSE WebsocketGetter[Len(WebsocketGetter)]

IdleWriter ==
    [pc |-> "idle", shard |-> NoShard, chan |-> 0, count |-> 0, delay |-> 0,
     dest |-> FALSE, obs |-> "-", cst |-> "-", chs |-> "-"]

\* websocket.send(message): the writer records what it sent on.
Sent(wr, c) ==
    [wr EXCEPT !.pc = "sent",
               !.obs = IF wr.shard = NoShard THEN "-" ELSE readyMap[wr.shard],
               !.cst = chans[c].state,
               !.chs = chans[c].hs]

\* ------------------------------------------------------------------------
\* Shard data and address classification
\* ------------------------------------------------------------------------
\* ShardData: the nine zones (ZoneData), the three regions and Prime.
ShardData == <<
    [name |-> "Cyprus1", nickname |-> "cyprus1", shard |-> "zone-0-0",
     byte |-> "0x00"],
    [name |-> "Cyprus2", nickname |-> "cyprus2", shard |-> "zone-0-1",
     byte |-> "0x01"],
    [name |-> "Cyprus3", nickname |-> "cyprus3", shard |-> "zone-0-2",
     byte |-> "0x02"],
    [name |-> "Paxos1", nickname |-> "paxos1", shard |-> "zone-1-0",
     byte |-> "0x10"],
    [name |-> "Paxos2", nickname |-> "paxos2", shard |-> "zone-1-1",
     byte |-> "0x11"],
    [name |-> "Paxos3", nickname |-> "paxos3", shard |-> "zone-1-2",
     byte |-> "0x12"],
    [name |-> "Hydra1", nickname |-> "hydra1", shard |-> "zone-2-0",
     byte |-> "0x20"],
    [name |-> "Hydra2", nickname |-> "hydra2", shard |-> "zone-2-1",
     byte |-> "0x21"],
    [name |-> "Hydra3", nickname |-> "hydra3", shard |-> "zone-2-2",
     byte |-> "0x22"],
    [name |-> "Cyprus", nickname |-> "cyprus", shard |-> "region-0",
     byte |-> "0x0"],
    [name |-> "Paxos", nickname |-> "paxos", shard |-> "region-1",
     byte |-> "0x1"],
    [name |-> "Hydra", nickname |-> "hydra", shard |-> "region-2",
     byte |-> "0x2"],
    [name |-> "Prime", nickname |-> "prime", shard |-> "prime",
     byte |-> "0x"] >>

\* String.prototype.toLowerCase on the strings of the model.
ToLowerCase(str) ==
    CASE str = "Cyprus1" -> "cyprus1"
      [] str = "Cyprus2" -> "cyprus2"
      [] str = "Cyprus3" -> "cyprus3"
      [] str = "Paxos1" -> "paxos1"
      [] str = "Paxos2" -> "paxos2"
      [] str = "Paxos3" -> "paxos3"
      [] str = "Hydra1" -> "hydra1"
      [] str = "Hydra2" -> "hydra2"
      [] str = "Hydra3" -> "hydra3"
      [] str = "Cyprus" -> "cyprus"
      [] str = "Paxos" -> "paxos"
      [] str = "Hydra" -> "hydra"
      [] str = "Prime" -> "prime"
      [] str = "Atlantis" -> "atlantis"
      [] str = "0X00" -> "0x00"
      [] OTHER -> str

\* ShardData.find(shard => shard.name.toLowerCase() === zone || ...): the
\* position of the first entry found, 0 when there is none.
FindShard(zone) ==
    LET hits == {k \in 1..Len(ShardData) :
                    \/ ToLowerCase(ShardData[k].name) = zone
                    \/ ToLowerCase(ShardData[k].nickname) = zone
                    \/ ToLowerCase(ShardData[k].byte) = zone}
    IN IF hits = {} THEN 0 ELSE CHOOSE k \in hits : \A j \in hits : k <= j

\* The address of a node is a hash of the seed and the node's path. The
\* model reads the class of the address at (account, index) off one
\* base-4 digit of the seed, so the seeds 0 .. 4^n - 1 run through every
\* classification of the first n addresses of an account:
\*   0: zone Cyprus1, account style     1: zone Cyprus1, UTXO style
\*   2: zone Cyprus2, account style     3: no zone, account style
NumClasses == 4

AddressClass(sd, account, index) ==
    ((sd \div (NumClasses ^ index)) + account * (index + 1)) % NumClasses

\* getShardForAddress(address): the position in ShardData of the zone the
\* address belongs to, 0 for null.
GetShardForAddress(sd, account, index) ==
    LET c == AddressClass(sd, account, index)
    IN IF c \in {0, 1} THEN 1 ELSE IF c = 2 THEN 2 ELSE 0

\* isUTXOAddress(address)
IsUTXOAddress(sd, account, index) == AddressClass(sd, account, index) = 1

\* ------------------------------------------------------------------------
\* HDNodeWallet.deriveAddress
\* ------------------------------------------------------------------------
NoZone == ""
ZoneInputs == {NoZone, "Cyprus1", "cyprus2", "0X00", "Cyprus", "Atlantis"}
CoinTypes == {994, 969, 60}

IdleCall ==
    [pc |-> "idle", index |-> 0, zone |-> NoZone, shard |-> 0,
     addrIndex |-> 0, zoneIndex |-> 0, newWallet |-> -1, matched |-> 0]

\* derivePath(node, path) ends with setCoinType(): the child carries the
\* coin type of its path, which is its parent's.
DerivedCoinType(nd) == nd.coinType

\* getShardForAddress(newWallet.address) == shard &&
\*   ((newWallet.coinType == 969) == isUTXOAddress(newWallet.address))
IsMatchOfZoneOnly(nd, addrIndex, shard) ==
    GetShardForAddress(seed, nd.account, addrIndex) = shard
IsMatch(nd, addrIndex, shard) ==
    /\ GetShardForAddress(seed, nd.account, addrIndex) = shard
    /\ (DerivedCoinType(nd) = 969) = IsUTXOAddress(seed, nd.account, addrIndex)

\* while (zoneIndex > 0)
LoopContinuesOffByOne(zoneIndex) == zoneIndex >= 0
LoopContinues(zoneIndex) == zoneIndex > 0

\* deriveAddress(index, zone) up to the do-while loop.
DeriveAddress(index, zone) ==
    /\ dv.pc # "loop"
    /\ LET call == [IdleCall EXCEPT !.index = index, !.zone = zone]
           shard == FindShard(ToLowerCase(zone))
       IN dv' =
          IF ~node.hasPath THEN [call EXCEPT !.pc = "missingPath"]
          ELSE IF zone = NoZone
          THEN IF node.coinType = 994 \/ node.coinType = 969
               THEN [call EXCEPT !.pc = "noZoneProvided"]
               ELSE [call EXCEPT !.pc = "done", !.newWallet = index]
          ELSE IF shard = 0 THEN [call EXCEPT !.pc = "invalidZone"]
          ELSE [call EXCEPT !.pc = "loop", !.shard = shard,
                            !.zoneIndex = index + 1]
    /\ UNCHANGED <<seed, node>>
    /\ UNCHANGED <<pvars, wvars, xvars>>

\* One turn of the do-while loop: derive the node at addrIndex, count it
\* when it matches, go on while zoneIndex > 0. The model knows the
\* addresses 0 .. MaxAddrIndex and stops a search that asks for more.
DeriveStep ==
    /\ dv.pc = "loop"
    /\ dv.addrIndex <= MaxAddrIndex
    /\ LET hit == IsMatch(node, dv.addrIndex, dv.shard)
           zi == IF hit THEN dv.zoneIndex - 1 ELSE dv.zoneIndex
       IN dv' = [dv EXCEPT
                   !.newWallet = dv.addrIndex,
                   !.matched = IF hit THEN dv.matched + 1 ELSE dv.matched,
                   !.zoneIndex = zi,
                   !.addrIndex = dv.addrIndex + 1,
                   !.pc = IF LoopContinues(zi) THEN "loop" ELSE "done"]
    /\ UNCHANGED <<seed, node>>
    /\ UNCHANGED <<pvars, wvars, xvars>>

\* ------------------------------------------------------------------------
\* QuaiHDWallet
\* ------------------------------------------------------------------------
Accounts == 0..MaxAccount
Indexes == 0..MaxAddrIndex
Zones == {"0x00", "0x01"}
NoWallet == {[none |-> TRUE]}

\* addressNode.address and addressNode.publicKey of the node derived at
\* account' / 0 / index: one value per node.
AddressOf(account, index) == <<account, index>>
PublicKeyOf(account, index) == <<account, index>>

\* getZoneForAddress(address): the zone's byte, "null" when there is none.
GetZoneForAddress(account, index) ==
    LET k == GetShardForAddress(seed, account, index)
    IN IF k = 0 THEN "null" ELSE ShardData[k].byte

\* isQuaiAddress(address)
IsQuaiAddress(account, index) == ~IsUTXOAddress(seed, account, index)

NoCall == [op |-> "none", account |-> 0, index |-> 0, zone |-> "-", result |-> "-"]

\* this._addresses.forEach(info => { if (info.index === addressIndex) throw })
IndexExistsInAccount(map, account, addressIndex) ==
    \E e \in map : e.index = addressIndex /\ e.account = account
IndexExists(map, account, addressIndex) ==
    \E e \in map : e.index = addressIndex

\* The outcome of _addAddress(account, addressIndex) on the map.
AddAddressResult(map, account, addressIndex) ==
    IF IndexExists(map, account, addressIndex) THEN "exists"
    ELSE IF GetZoneForAddress(account, addressIndex) = "null" THEN "noZone"
    ELSE IF ~IsQuaiAddress(account, addressIndex) THEN "notQuai"
    ELSE "ok"

\* createAndStoreAddressInfo(addressNode, account, zone): the entry built
\* and this._addresses.set(address, entry).
AddressInfoWithoutIndex(account, index, zone) ==
    [pubKey |-> PublicKeyOf(account, index), address |-> AddressOf(account, index),
     account |-> account, index |-> 0, zone |-> zone]
AddressInfo(account, index, zone) ==
    [pubKey |-> PublicKeyOf(account, index), address |-> AddressOf(account, index),
     account |-> account, index |-> index, zone |-> zone]

CreateAndStoreAddressInfo(map, account, index, zone) ==
    {e \in map : e.address # AddressOf(account, index)}
        \cup {AddressInfo(account, index, zone)}

\* The map _addAddress(account, addressIndex) leaves.
AddAddressMapStoresFirst(map, account, addressIndex) ==
    CreateAndStoreAddressInfo(map, account, addressIndex,
                              GetZoneForAddress(account, addressIndex))
AddAddressMap(map, account, addressIndex) ==
    IF AddAddressResult(map, account, addressIndex) = "ok"
    THEN CreateAndStoreAddressInfo(map, account, addressIndex,
                                   GetZoneForAddress(account, addressIndex))
    ELSE map

\* addAddress(account, addressIndex)
AddAddress(account, addressIndex) ==
    /\ addresses' = AddAddressMap(addresses, account, addressIndex)
    /\ last' = [op |-> "addAddress", account |-> account, index |-> addressIndex,
                zone |-> "-",
                result |-> AddAddressResult(addresses, account, addressIndex)]
    /\ UNCHANGED <<imp, pvars, dvars, xvars>>

\* validateZone(zone)
ValidateZone(zone) == zone \in Zones

\* getLastAddressIndex(this._addresses, zone, account): the greatest index
\* stored for the account and zone, -1 when there is none.
GetLastAddressIndex(map, zone, account) ==
    LET idx == {e.index : e \in {x \in map : x.zone = zone /\ x.account = account}}
    IN IF idx = {} THEN -1 ELSE CHOOSE i \in idx : \A j \in idx : j <= i

\* deriveNextAddressNode(account, startingIndex, zone, false): the index
\* of the first node from startingIndex on whose address is a Quai address
\* of the zone; -1 when the addresses of the model hold none.
DeriveNextAddressNodeFromZero(account, startingIndex, zone) ==
    LET hits == {i \in Indexes :
                    /\ GetZoneForAddress(account, i) = zone
                    /\ IsQuaiAddress(account, i)}
    IN IF hits = {} THEN -1 ELSE CHOOSE i \in hits : \A j \in hits : i <= j
DeriveNextAddressNode(account, startingIndex, zone) ==
    LET hits == {i \in Indexes :
                    /\ i >= startingIndex
                    /\ GetZoneForAddress(account, i) = zone
                    /\ IsQuaiAddress(account, i)}
    IN IF hits = {} THEN -1 ELSE CHOOSE i \in hits : \A j \in hits : i <= j

\* getNextAddress(account, zone) / getNextAddressSync / _getNextAddress
GetNextAddress(account, zone) ==
    /\ LET found == DeriveNextAddressNode(account,
                        GetLastAddressIndex(addresses, zone, account) + 1, zone)
       IN IF ~ValidateZone(zone)
          THEN /\ addresses' = addresses
               /\ last' = [op |-> "getNextAddress", account |-> account, index |-> 0,
                           zone |-> zone, result |-> "invalidZone"]
          ELSE IF found = -1
          THEN /\ addresses' = addresses
               /\ last' = [op |-> "getNextAddress", account |-> account, index |-> 0,
                           zone |-> zone, result |-> "searchFailed"]
          ELSE /\ addresses' = CreateAndStoreAddressInfo(addresses, account, found, zone)
               /\ last' = [op |-> "getNextAddress", account |-> account, index |-> found,
                           zone |-> zone, result |-> "ok"]
    /\ UNCHANGED <<imp, pvars, dvars, xvars>>

\* ------------------------------------------------------------------------
\* QuaiHDWallet.deserialize
\* ------------------------------------------------------------------------
\* The entries a serialized wallet may hold for the nodes of the model: the
\* values serialize() wrote, or the address or public key of another node,
\* or another zone.
EntriesOf(a, i) ==
    {[account |-> a, index |-> i, address |-> ad, pubKey |-> pk, zone |-> z] :
        ad \in {AddressOf(a, i), AddressOf(a, (i + 1) % (MaxAddrIndex + 1))},
        pk \in {PublicKeyOf(a, i), PublicKeyOf((a + 1) % (MaxAccount + 1), i)},
        z \in Zones}

SerializedEntries == UNION {EntriesOf(a, i) : a \in Accounts, i \in Indexes}

IdleImport ==
    [pc |-> "idle", wallet |-> {}, err |-> "-", differs |-> FALSE,
     rejected |-> FALSE, returned |-> NoWallet]

\* One turn of importSerializedAddresses' loop on the wallet being built:
\* _addAddress, then the three comparisons.
ImportErrorNoZoneCheck(map, e) ==
    LET r == AddAddressResult(map, e.account, e.index)
        info == AddressInfo(e.account, e.index, GetZoneForAddress(e.account, e.index))
    IN IF r # "ok" THEN r
       ELSE IF e.address # info.address THEN "addressMismatch"
       ELSE IF e.pubKey # info.pubKey THEN "pubKeyMismatch"
       ELSE "ok"
ImportError(map, e) ==
    LET r == AddAddressResult(map, e.account, e.index)
        info == AddressInfo(e.account, e.index, GetZoneForAddress(e.account, e.index))
    IN IF r # "ok" THEN r
       ELSE IF e.address # info.address THEN "addressMismatch"
       ELSE IF e.pubKey # info.pubKey THEN "pubKeyMismatch"
       ELSE IF e.zone # info.zone THEN "zoneMismatch"
       ELSE "ok"

\* History: the stored entry is not what its account and index derive to.
EntryDiffers(e) ==
    \/ e.address # <<e.account, e.index>>
    \/ e.pubKey # <<e.account, e.index>>
    \/ e.zone # GetZoneForAddress(e.account, e.index)

\* deserialize(serialized) up to the loop: validateSerializedWallet
\* passed, the root is derived, `new this(_guard, root)` is empty.
Deserialize ==
    /\ imp.pc # "importing"
    /\ imp' = [IdleImport EXCEPT !.pc = "importing"]
    /\ UNCHANGED <<addresses, last, pvars, dvars, xvars>>

\* for (const addressInfo of addresses): the next stored entry.
ImportEntry(e) ==
    /\ imp.pc = "importing"
    /\ LET r == ImportError(imp.wallet, e) IN
       imp' = [imp EXCEPT
                 !.wallet = AddAddressMap(imp.wallet, e.account, e.index),
                 !.differs = EntryDiffers(e),
                 !.rejected = AddAddressResult(imp.wallet, e.account, e.index) # "ok",
                 !.err = r,
                 !.pc = IF r = "ok" THEN "importing" ELSE "failed"]
    /\ UNCHANGED <<addresses, last, pvars, dvars, xvars>>

\* The loop is over: return wallet.
ImportReturn ==
    /\ imp.pc = "importing"
    /\ imp' = [imp EXCEPT !.pc = "returned", !.returned = imp.wallet]
    /\ UNCHANGED <<addresses, last, pvars, dvars, xvars>>

\* ------------------------------------------------------------------------
\* WebSocketProvider: the state after the constructor
\* ------------------------------------------------------------------------
\* The constructor runs initUrlMap up to its first await: the Prime channel
\* of the first url is created, registered and waited for.
ZoneWaitsNone == [i \in 1..Len(RunningLocations) |-> [st |-> "none", count |-> 0, delay |-> 0]]

ProviderStart ==
    /\ chans = <<NewSocket(Prime)>>
    /\ websockets = <<1>>
    /\ readyMap = [s \in Shards |-> "unset"]
    /\ urlMap = [s \in Shards |-> IF s = Prime THEN 1 ELSE 0]
    /\ \E n \in 1..MaxUrls :
           init = [pc |-> "waitPrime", url |-> 1, nurls |-> n, count |-> 0,
                   delay |-> Delay(0), zones |-> ZoneWaitsNone]
    /\ writers = [w \in Writers |-> IdleWriter]
    /\ destroyed = FALSE

ProviderIdle ==
    /\ chans = <<NewSocket(Prime)>>
    /\ websockets = <<1>>
    /\ readyMap = [s \in Shards |-> "unset"]
    /\ urlMap = [s \in Shards |-> IF s = Prime THEN 1 ELSE 0]
    /\ init = [pc |-> "waitPrime", url |-> 1, nurls |-> 1, count |-> 0,
               delay |-> 1, zones |-> ZoneWaitsNone]
    /\ writers = [w \in Writers |-> IdleWriter]
    /\ destroyed = FALSE

\* ------------------------------------------------------------------------
\* WebSocketProvider.initWebSocket: the onopen handler
\* ------------------------------------------------------------------------
\* The transport opened: onopen starts and suspends in `await this._start()`.
OnOpen(c) ==
    /\ chans[c].state = "connecting"
    /\ chans' = [chans EXCEPT ![c].state = "open", ![c].hs = "starting"]
    /\ UNCHANGED <<websockets, readyMap, urlMap, init, writers, destroyed>>
    /\ UNCHANGED <<dvars, wvars, xvars>>

\* _start() settled: readyMap.set(shard, true), or (catch) set(shard, false).
StartDone(c, ok) ==
    /\ chans[c].hs = "starting"
    /\ chans' = [chans EXCEPT ![c].hs = IF ok THEN "ok" ELSE "failed"]
    /\ readyMap' = [readyMap EXCEPT ![chans[c].shard] = IF ok THEN "true" ELSE "false"]
    /\ UNCHANGED <<websockets, urlMap, init, writers, destroyed>>
    /\ UNCHANGED <<dvars, wvars, xvars>>

\* ------------------------------------------------------------------------
\* WebSocketProvider.initUrlMap
\* ------------------------------------------------------------------------
\* The head of one iteration of `for (const url of urls)`, entered with the
\* channel state chs/wss/um left by the previous iteration; or the end of
\* the loop.
NextUrlOrDone(chs, wss, um) ==
    IF init.url < init.nurls
    THEN /\ chans' = Append(chs, NewSocket(Prime))
         /\ websockets' = Append(wss, Len(chs) + 1)
         /\ urlMap' = [um EXCEPT ![Prime] = Len(chs) + 1]
         /\ init' = [init EXCEPT
                !.pc = IF WaitEnter(Prime) = "ready" THEN "getLocations" ELSE "waitPrime",
                !.url = init.url + 1,
                !.count = 0,
                !.delay = IF WaitEnter(Prime) = "ready" THEN 0 ELSE Delay(0),
                !.zones = ZoneWaitsNone]
    ELSE /\ chans' = chs
         /\ websockets' = wss
         /\ urlMap' = um
         /\ init' = [init EXCEPT !.pc = "done", !.zones = ZoneWaitsNone]

\* getRunningLocations() is a request to the network: it can be answered
\* only by a provider that has not been destroyed.
RunningLocationsAnswered == ~destroyed

\* await this.waitShardReady(Shard.Prime): one timer of the wait.
InitPrimeWake ==
    /\ init.pc = "waitPrime"
    /\ LET r == WaitWake(Prime, init.count) IN
        init' = IF r = "timeout" THEN [init EXCEPT !.pc = "failed"]
                ELSE IF r = "ready" THEN [init EXCEPT !.pc = "getLocations"]
                ELSE [init EXCEPT !.count = init.count + 1,
                                  !.delay = Delay(init.count + 1)]
    /\ UNCHANGED <<websockets, chans, readyMap, urlMap, writers, destroyed>>
    /\ UNCHANGED <<dvars, wvars, xvars>>

\* const shards = await this.getRunningLocations() resolved or rejected.
\* On success shards.map(...) runs every callback up to its first await:
\* all zone channels are created and registered, and each wait tests its
\* flag once.
GetLocations(ok) ==
    /\ init.pc = "getLocations"
    /\ ok => RunningLocationsAnswered
    /\ IF ~ok
       THEN /\ init' = [init EXCEPT !.pc = "failed"]
            /\ UNCHANGED <<websockets, chans, urlMap>>
       ELSE LET n == Len(RunningLocations)
                base == Len(chans)
                chs == chans \o [i \in 1..n |-> NewSocket(RunningLocations[i])]
                wss == websockets \o [i \in 1..n |-> base + i]
                um == [s \in Shards |->
                        IF \E i \in 1..n : RunningLocations[i] = s
                        THEN base + (CHOOSE i \in 1..n : RunningLocations[i] = s)
                        ELSE urlMap[s]]
                zs == [i \in 1..n |->
                        IF WaitEnter(RunningLocations[i]) = "ready"
                        THEN [st |-> "returned", count |-> 0, delay |-> 0]
                        ELSE [st |-> "sleeping", count |-> 0, delay |-> Delay(0)]]
            IN IF \A i \in 1..n : zs[i].st = "returned"
               THEN NextUrlOrDone(chs, wss, um)
               ELSE /\ chans' = chs
                    /\ websockets' = wss
                    /\ urlMap' = um
                    /\ init' = [init EXCEPT !.pc = "waitZones", !.zones = zs]
    /\ UNCHANGED <<readyMap, writers, destroyed>>
    /\ UNCHANGED <<dvars, wvars, xvars>>

\* await this.waitShardReady(zone shard) inside Promise.all: one timer.
InitZoneWake(i) ==
    /\ init.pc = "waitZones"
    /\ init.zones[i].st = "sleeping"
    /\ LET r == WaitWake(RunningLocations[i], init.zones[i].count)
           zs == [init.zones EXCEPT ![i].st = "returned"]
       IN IF r = "timeout"
          THEN /\ init' = [init EXCEPT !.pc = "failed", !.zones = ZoneWaitsNone]
               /\ UNCHANGED <<websockets, chans, urlMap>>
          ELSE IF r = "sleep"
          THEN /\ init' = [init EXCEPT
                      !.zones[i].count = init.zones[i].count + 1,
                      !.zones[i].delay = Delay(init.zones[i].count + 1)]
               /\ UNCHANGED <<websockets, chans, urlMap>>
          ELSE IF \A j \in 1..Len(RunningLocations) : zs[j].st = "returned"
          THEN NextUrlOrDone(chans, websockets, urlMap)
          ELSE /\ init' = [init EXCEPT !.zones = zs]
               /\ UNCHANGED <<websockets, chans, urlMap>>
    /\ UNCHANGED <<readyMap, writers, destroyed>>
    /\ UNCHANGED <<dvars, wvars, xvars>>

\* ------------------------------------------------------------------------
\* WebSocketProvider._write and destroy
\* ------------------------------------------------------------------------
\* _write(message, shard) up to its await (or to its end when it has none).
Write(w, s) ==
    /\ writers[w].pc # "waiting"
    /\ LET base == [IdleWriter EXCEPT !.shard = s, !.dest = destroyed] IN
       writers' = [writers EXCEPT ![w] =
          IF Len(WebsocketGetter) < 1 THEN [base EXCEPT !.pc = "closedErr"]
          ELSE IF s # NoShard /\ urlMap[s] = 0 THEN [base EXCEPT !.pc = "notFound"]
          ELSE LET c == TargetSocket(s)
                   wr == [base EXCEPT !.chan = c]
               IN IF s = NoShard THEN Sent(wr, c)
                  ELSE IF WaitEnter(s) = "ready" THEN Sent(wr, c)
                  ELSE [wr EXCEPT !.pc = "waiting", !.delay = Delay(0)]]
    /\ UNCHANGED <<websockets, chans, readyMap, urlMap, init, destroyed>>
    /\ UNCHANGED <<dvars, wvars, xvars>>

\* One timer of the write's waitShardReady, and websocket.send after it.
WriteWake(w) ==
    /\ writers[w].pc = "waiting"
    /\ LET wr == writers[w]
           r == WaitWake(wr.shard, wr.count)
       IN writers' = [writers EXCEPT ![w] =
            IF r = "timeout" THEN [wr EXCEPT !.pc = "timeout"]
            ELSE IF r = "ready" THEN Sent(wr, wr.chan)
            ELSE [wr EXCEPT !.count = wr.count + 1, !.delay = Delay(wr.count + 1)]]
    /\ UNCHANGED <<websockets, chans, readyMap, urlMap, init, destroyed>>
    /\ UNCHANGED <<dvars, wvars, xvars>>

\* destroy(): close every listed channel, then drop the list.
DestroySockets ==
    [c \in 1..Len(chans) |->
        IF \E k \in 1..Len(websockets) : websockets[k] = c
        THEN [chans[c] EXCEPT !.state = "closed"]
        ELSE chans[c]]

\* super.destroy() belongs to SocketProvider: of the state of the model it
\* can reach _urlMap only, which it clears or leaves.
SuperDestroy(um, clears) == IF clears THEN [s \in Shards |-> 0] ELSE um

Destroy(clears) ==
    /\ chans' = DestroySockets
    /\ websockets' = <<>>
    /\ urlMap' = SuperDestroy(urlMap, clears)
    /\ destroyed' = TRUE
    /\ UNCHANGED <<readyMap, init, writers>>
    /\ UNCHANGED <<dvars, wvars, xvars>>

ProviderNext ==
    \/ \E c \in 1..Len(chans) : OnOpen(c)
    \/ \E c \in 1..Len(chans), ok \in BOOLEAN : StartDone(c, ok)
    \/ InitPrimeWake
    \/ \E ok \in BOOLEAN : GetLocations(ok)
    \/ \E i \in 1..Len(RunningLocations) : InitZoneWake(i)
    \/ \E w \in Writers, s \in Shards \cup {NoShard} : Write(w, s)
    \/ \E w \in Writers : WriteWake(w)
    \/ \E clears \in BOOLEAN : Destroy(clears)

\* The parts of the state another component's specification leaves alone.
DeriveIdle ==
    /\ seed = 0
    /\ node = [coinType |-> 994, account |-> 0, hasPath |-> TRUE]
    /\ dv = IdleCall

WalletIdle ==
    /\ addresses = {}
    /\ last = NoCall
    /\ imp = IdleImport

NoProvider ==
    walletProvider = FALSE

NoNode == [kind |-> "none"]

HdIdle ==
    hd = NoNode

NoFx == [op |-> "none"]

FxIdle ==
    fx = NoFx

NoQi == [op |-> "none"]

QiIdle == qi = NoQi

Init ==
    ProviderStart /\ DeriveIdle /\ WalletIdle /\ NoProvider /\ HdIdle /\ FxIdle /\ QiIdle

Next == ProviderNext

Spec == Init /\ [][Next]_vars

DeriveInit ==
    /\ ProviderIdle
    /\ seed \in 0..MaxSeed
    /\ node \in [coinType : CoinTypes, account : {0}, hasPath : BOOLEAN]
    /\ dv = IdleCall
    /\ WalletIdle
    /\ NoProvider
    /\ HdIdle
    /\ FxIdle
    /\ QiIdle

DeriveNext ==
    \/ \E index \in 0..MaxZoneIndex, zone \in ZoneInputs : DeriveAddress(index, zone)
    \/ DeriveStep

SpecDerive == DeriveInit /\ [][DeriveNext]_vars

WalletInit ==
    /\ ProviderIdle
    /\ seed \in 0..MaxWalletSeed
    /\ node = [coinType |-> 994, account |-> 0, hasPath |-> TRUE]
    /\ dv = IdleCall
    /\ WalletIdle
    /\ NoProvider
    /\ HdIdle
    /\ FxIdle
    /\ QiIdle

WalletNext ==
    \/ \E account \in Accounts, index \in Indexes : AddAddress(account, index)
    \/ \E account \in Accounts, zone \in Zones \cup {"0x"} : GetNextAddress(account, zone)

SpecWallet == WalletInit /\ [][WalletNext]_vars

DeserializeNext ==
    \/ Deserialize
    \/ \E e \in SerializedEntries : ImportEntry(e)
    \/ ImportReturn

SpecDeserialize == WalletInit /\ [][DeserializeNext]_vars

\* Timers fire: a wait that sleeps is woken.
FairSpec ==
    /\ Spec
    /\ \A w \in Writers : WF_vars(WriteWake(w))
    /\ WF_vars(InitPrimeWake)
    /\ \A i \in 1..Len(RunningLocations) : WF_vars(InitZoneWake(i))

\* ------------------------------------------------------------------------
\* Claims about WebSocketProvider
\* ------------------------------------------------------------------------

\* C1: a write addressed to a shard sends its payload, on the channel
\* registered for that shard, only having observed the shard's ready flag
\* true; a write that timed out has sent nothing and has exceeded the cap.
WriteOnlyAfterReady ==
    \A w \in Writers :
        LET wr == writers[w] IN
        /\ (wr.pc = "sent" /\ wr.shard # NoShard) =>
                /\ wr.obs = "true"
                /\ chans[wr.chan].shard = wr.shard
        /\ wr.pc = "timeout" =>
                /\ wr.obs = "-" /\ wr.cst = "-"
                /\ wr.count > BackoffCap

\* A write to a shard slept at least once and then sent.
WriteWaitedThenSent ==
    \E w \in Writers :
        /\ writers[w].pc = "sent"
        /\ writers[w].shard # NoShard
        /\ writers[w].count > 0

\* C2: a write begun after destroy() fails at once with the closed-channel
\* error: it neither waits for readiness nor sends.
WriteAfterDestroyFails ==
    \A w \in Writers :
        writers[w].dest => writers[w].pc = "closedErr"

\* No wait has slept more than BackoffCap + 2 = 9 times, and a wait that
\* sleeps for the k-th time sleeps 2^(k-1) ms.
WaitCountBounded ==
    /\ \A w \in Writers :
          /\ writers[w].count <= BackoffCap + 1
          /\ writers[w].pc = "waiting" => writers[w].delay = 2 ^ writers[w].count
    /\ init.count <= BackoffCap + 1
    /\ init.pc = "waitPrime" => init.delay = 2 ^ init.count
    /\ \A i \in 1..Len(RunningLocations) :
          /\ init.zones[i].count <= BackoffCap + 1
          /\ init.zones[i].st = "sleeping" =>
                init.zones[i].delay = 2 ^ init.zones[i].count

\* A wait sleeps again only having seen the flag not true, for twice the
\* delay; it times out only after the 256 ms sleep.
WaitStep ==
    /\ \A w \in Writers :
          (writers[w].pc = "waiting" /\ writers'[w].pc = "waiting"
             /\ writers'[w] # writers[w]) =>
              /\ readyMap[writers[w].shard] # "true"
              /\ writers'[w].count = writers[w].count + 1
              /\ writers'[w].delay = 2 * writers[w].delay
    /\ \A w \in Writers :
          (writers[w].pc = "waiting" /\ writers'[w].pc = "timeout") =>
              writers[w].delay = 2 ^ (BackoffCap + 1)
    /\ (init.pc = "waitPrime" /\ init'.pc = "waitPrime" /\ init' # init) =>
              /\ readyMap[Prime] # "true"
              /\ init'.delay = 2 * init.delay

\* C3: waitShardReady terminates. It sleeps at most BackoffCap + 2 = 9
\* times, for 2^0, 2^1, ... 2^8 ms, sleeps again only when it saw the flag
\* unset, and every sleeping wait returns or throws the timeout.
WaitTerminates ==
    /\ []WaitCountBounded
    /\ [][WaitStep]_vars
    /\ \A w \in Writers :
          (writers[w].pc = "waiting") ~> (writers[w].pc \in {"sent", "timeout"})
    /\ (init.pc = "waitPrime") ~> (init.pc \in {"getLocations", "failed"})
    /\ (init.pc = "waitZones") ~> (init.pc # "waitZones")

\* A write to a shard timed out after its ninth sleep.
WriteTimedOut ==
    \E w \in Writers :
        /\ writers[w].pc = "timeout"
        /\ writers[w].count = BackoffCap + 1
        /\ writers[w].delay = 256

\* C4: a shard's flag turns true only when the onopen handshake of a
\* channel of that shard succeeds, and while a channel whose handshake
\* succeeded stays open its shard stays ready.
ChannelLifecycle ==
    [][\A s \in Shards :
        /\ (readyMap[s] # "true" /\ readyMap'[s] = "true") =>
              \E c \in 1..Len(chans) :
                  /\ chans[c].shard = s
                  /\ chans[c].state # "connecting"
                  /\ chans[c].hs = "starting"
                  /\ chans'[c].hs = "ok"
        /\ (readyMap[s] = "true"
              /\ \E c \in 1..Len(chans) :
                    /\ chans[c].shard = s /\ chans[c].hs = "ok"
                    /\ chans[c].state = "open" /\ chans'[c].state = "open") =>
              readyMap'[s] = "true"]_vars

\* C5: destroy() leaves no channel listed, every created channel closed,
\* no shard marked ready and no shard mapped to a closed channel.
DestroyClearsState ==
    [][(~destroyed /\ destroyed') =>
        /\ websockets' = <<>>
        /\ \A c \in 1..Len(chans') : chans'[c].state = "closed"
        /\ \A s \in Shards :
              /\ readyMap'[s] # "true"
              /\ urlMap'[s] # 0 => chans'[urlMap'[s]].state # "closed"]_vars

\* ------------------------------------------------------------------------
\* Claims about HDNodeWallet.deriveAddress
\* ------------------------------------------------------------------------
InZone(j) == GetShardForAddress(seed, node.account, j) = dv.shard

StyleOfCoinType(j) ==
    (DerivedCoinType(node) = 969) <=> IsUTXOAddress(seed, node.account, j)

\* C6 as stated: the node deriveAddress(index, zone) returns is in the
\* zone, and exactly index + 1 of the addresses 0 .. i are in the zone.
ReturnsNthOfZone ==
    (dv.pc = "done" /\ dv.zone # NoZone) =>
        /\ InZone(dv.newWallet)
        /\ Cardinality({j \in 0..dv.newWallet : InZone(j)}) = dv.index + 1

\* C6 as amended: the node returned is in the zone and of the ledger style
\* of the node's coin type, exactly index + 1 of the addresses 0 .. i are
\* such, and the address index returned is at least index.
ReturnsNthMatchOfZone ==
    (dv.pc = "done" /\ dv.zone # NoZone) =>
        /\ InZone(dv.newWallet)
        /\ StyleOfCoinType(dv.newWallet)
        /\ Cardinality({j \in 0..dv.newWallet :
                            InZone(j) /\ StyleOfCoinType(j)}) = dv.index + 1
        /\ dv.newWallet >= dv.index
        /\ dv.addrIndex = dv.newWallet + 1

\* A search for the second match returned after passing an address of the
\* zone that has the other ledger style.
SearchSkippedOtherStyle ==
    /\ dv.pc = "done"
    /\ dv.zone # NoZone
    /\ dv.index = 1
    /\ \E j \in 0..dv.newWallet : InZone(j) /\ ~StyleOfCoinType(j)

\* C7: a search that has tried every address up to the bound without one
\* match is over (with an error); it is not still looping.
SearchGivesUp ==
    ~(dv.pc = "loop" /\ dv.matched = 0 /\ dv.addrIndex > MaxAddrIndex)

\* ------------------------------------------------------------------------
\* Claims about QuaiHDWallet
\* ------------------------------------------------------------------------
\* C8: addAddress with an index some entry of the map already has is
\* rejected with 'already exists' and adds nothing.
AddExistingIndexRejected ==
    [][(last'.op = "addAddress"
          /\ \E e \in addresses : e.index = last'.index) =>
        /\ last'.result = "exists"
        /\ addresses' = addresses]_vars

\* addAddress was rejected for an index only another account uses.
RejectedForOtherAccount ==
    /\ last.op = "addAddress"
    /\ last.result = "exists"
    /\ \E e \in addresses : e.index = last.index
    /\ \A e \in addresses : e.index = last.index => e.account # last.account

\* C9: a failing addAddress leaves the address map as it was.
FailedAddKeepsMap ==
    [][(last'.op = "addAddress" /\ last'.result # "ok") =>
            addresses' = addresses]_vars

\* addAddress failed, for an address of no zone, on a wallet that holds
\* addresses.
AddFailedNoZone ==
    /\ last.op = "addAddress"
    /\ last.result = "noZone"
    /\ Cardinality(addresses) >= 2

MismatchErrors == {"addressMismatch", "pubKeyMismatch", "zoneMismatch"}

Serialize(map) == map

\* deserialize(wallet.serialize()) up to the loop.
RoundTripStart ==
    /\ imp.pc = "idle"
    /\ Deserialize

\* The loop's next turn: an entry of the serialized wallet not yet imported.
RoundTripEntry(e) ==
    /\ e \in Serialize(addresses) \ imp.wallet
    /\ ImportEntry(e)

\* Every entry was imported: return wallet.
RoundTripReturn ==
    /\ Serialize(addresses) \ imp.wallet = {}
    /\ ImportReturn

RoundTripNext ==
    \/ imp.pc = "idle" /\ WalletNext
    \/ RoundTripStart
    \/ \E e \in addresses : RoundTripEntry(e)
    \/ RoundTripReturn

SpecRoundTrip == WalletInit /\ [][RoundTripNext]_vars

\* C11: deserialize(wallet.serialize()) does not fail, and the wallet it
\* returns holds exactly the entries of the wallet serialized.
RoundTripRestores ==
    /\ imp.pc # "failed"
    /\ imp.pc = "returned" => imp.returned = addresses

\* ------------------------------------------------------------------------
\* QuaiHDWallet: signing and sending
\* ------------------------------------------------------------------------
SignOps == {"signTransaction", "sendTransaction", "signMessage", "signTypedData"}

\* resolveAddress(tx.from): the address itself.
ResolveAddress(from) == from

\* _getHDNodeForAddress(address): the node of the entry the address map
\* holds for the address; it throws when the map holds none.
GetHDNodeForAddress(map, address) ==
    IF \E e \in map : e.address = address
    THEN LET e == CHOOSE x \in map : x.address = address
         IN [found |-> TRUE, account |-> e.account, index |-> e.index]
    ELSE [found |-> FALSE, account |-> 0, index |-> 0]

\* signTransaction(tx), signMessage(address, message) and
\* signTypedData(address, ...): look the node up, then sign with it.
SignResult(map, address) ==
    IF ~GetHDNodeForAddress(map, ResolveAddress(address)).found THEN "noNode"
    ELSE "signed"

\* sendTransaction(tx): the provider test, the lookup, then
\* fromNode.connect(provider).sendTransaction(tx).
SendResultNoProviderTest(hasProvider, map, from) ==
    IF ~GetHDNodeForAddress(map, ResolveAddress(from)).found THEN "noNode"
    ELSE "sent"
SendResult(hasProvider, map, from) ==
    IF ~hasProvider THEN "providerNotSet"
    ELSE IF ~GetHDNodeForAddress(map, ResolveAddress(from)).found THEN "noNode"
    ELSE "sent"

\* signTransaction / signMessage / signTypedData for the address of the node
\* (account, index).
Sign(op, account, index) ==
    /\ last' = [op |-> op, account |-> account, index |-> index, zone |-> "-",
                result |-> SignResult(addresses, AddressOf(account, index))]
    /\ UNCHANGED <<addresses, imp, pvars, dvars, xvars>>

SendTransaction(account, index) ==
    /\ last' = [op |-> "sendTransaction", account |-> account, index |-> index,
                zone |-> "-",
                result |-> SendResult(walletProvider, addresses,
                                      AddressOf(account, index))]
    /\ UNCHANGED <<addresses, imp, pvars, dvars, xvars>>

\* new QuaiHDWallet(guard, root, provider?) with no address yet. The seed
\* decides only which addresses addAddress accepts: two seeds give wallets
\* that hold some addresses and lack others.
SignInit ==
    /\ ProviderIdle
    /\ seed \in {0, 1}
    /\ node = [coinType |-> 994, account |-> 0, hasPath |-> TRUE]
    /\ dv = IdleCall
    /\ WalletIdle
    /\ walletProvider \in BOOLEAN
    /\ HdIdle
    /\ FxIdle
    /\ QiIdle

SignNext ==
    \/ \E account \in Accounts, index \in Indexes : AddAddress(account, index)
    \/ \E op \in SignOps \ {"sendTransaction"}, account \in Accounts, index \in Indexes :
            Sign(op, account, index)
    \/ \E account \in Accounts, index \in Indexes : SendTransaction(account, index)

SpecSign == SignInit /\ [][SignNext]_vars

\* C12: a signature is produced, or a transaction sent, only for an address
\* the address map holds; for any other address the call fails, and
\* sendTransaction without a provider fails with 'Provider is not set'.
SignsOnlyOwned ==
    [][last'.op \in SignOps =>
        LET owned == \E e \in addresses :
                        e.address = AddressOf(last'.account, last'.index)
        IN /\ last'.result \in {"signed", "sent"} => owned
           /\ ~owned => last'.result \in {"noNode", "providerNotSet"}
           /\ last'.result = "sent" => walletProvider
           /\ (last'.op = "sendTransaction" /\ ~walletProvider) =>
                  last'.result = "providerNotSet"
           /\ addresses' = addresses]_vars

\* sendTransaction from an address the wallet holds failed for want of a
\* provider.
SendWithoutProvider ==
    /\ last.op = "sendTransaction"
    /\ last.result = "providerNotSet"
    /\ \E e \in addresses : e.address = AddressOf(last.account, last.index)

\* ------------------------------------------------------------------------
\* HD nodes: HDNodeWallet and HDNodeVoidWallet
\* ------------------------------------------------------------------------
\* The arithmetic of the keys, scaled down. Private keys are the numbers
\* mod CurveOrder, the point of the key k is k * Generator mod CurveOrder,
\* a child index has HardenedBit as its top bit.
CurveOrder == 5
Generator == 2
HardenedBit == 8

\* SigningKey.compressedPublicKey: the point of a private key.
PublicKey(priv) == (priv * Generator) % CurveOrder

\* SigningKey.addPoints(IL, publicKey): the point of IL added to a point.
AddPoints(il, pub) == (PublicKey(il) + pub) % CurveOrder

\* computeAddress(publicKey)
ComputeAddress(pub) == <<"address", pub>>

\* dataSlice(ripemd160(sha256(publicKey)), 0, 4)
Fingerprint(pub) == (pub * 5 + 1) % 256

\* ser_I(index, chainCode, publicKey, privateKey): the HMAC of the chain
\* code over the private key (hardened index) or the public key (any other)
\* and the index. A hardened index needs the private key.
SerIFails(index, priv) == index >= HardenedBit /\ priv = -1

SerIL(index, chainCode, pub, priv) ==
    LET data == IF index >= HardenedBit THEN priv + CurveOrder ELSE pub
    IN (3 * chainCode + 5 * data + 7 * index + 1) % CurveOrder

SerIR(index, chainCode, pub, priv) ==
    LET data == IF index >= HardenedBit THEN priv + CurveOrder ELSE pub
    IN (chainCode + 2 * data + 3 * index + 4) % CurveOrder

\* The path of a node: null, '' or "m/..." with its fields after "m". A
\* field is the child index it was written from (i & ~HardenedBit, with
\* "'" when the index has the hardened bit).
NullPath == [t |-> "null", fields |-> <<>>]
EmptyPath == [t |-> "empty", fields |-> <<>>]
RootPath == [t |-> "m", fields |-> <<>>]

\* if (path): null and '' are falsy.
Truthy(path) == path.t = "m"

\* path.split("/").length
PathFieldsLength(path) == 1 + Len(path.fields)

\* HDNodeWallet.#fromSeed(seed, mnemonic): the root node.
FromSeed(sd) ==
    LET priv == (sd * 3 + 1) % CurveOrder
    IN [kind |-> "full", priv |-> priv, pub |-> PublicKey(priv),
        address |-> ComputeAddress(PublicKey(priv)),
        fingerprint |-> Fingerprint(PublicKey(priv)), accountFingerprint |-> 0,
        chainCode |-> (sd * 7 + 2) % CurveOrder, path |-> RootPath,
        index |-> 0, depth |-> 0]

\* HDNodeWallet.deriveChild(index): newDepth
FullChildDepth(n) ==
    IF Truthy(n.path) /\ PathFieldsLength(n.path) = 6 THEN n.depth ELSE n.depth + 1

\* HDNodeWallet.deriveChild(index): path
FullChildPath(n, index) ==
    IF ~Truthy(n.path) THEN n.path
    ELSE IF PathFieldsLength(n.path) = 6
    THEN [n.path EXCEPT !.fields = Append(SubSeq(n.path.fields, 1, 4), index)]
    ELSE [n.path EXCEPT !.fields = Append(n.path.fields, index)]

\* HDNodeWallet.deriveChild(index)
FullDeriveChild(n, index) ==
    LET il == SerIL(index, n.chainCode, n.pub, n.priv)
        ki == (il + n.priv) % CurveOrder
    IN [kind |-> "full", priv |-> ki, pub |-> PublicKey(ki),
        address |-> ComputeAddress(PublicKey(ki)),
        fingerprint |-> Fingerprint(PublicKey(ki)),
        accountFingerprint |-> IF n.depth = 3 THEN n.fingerprint
                               ELSE n.accountFingerprint,
        chainCode |-> SerIR(index, n.chainCode, n.pub, n.priv),
        path |-> FullChildPath(n, index), index |-> index,
        depth |-> FullChildDepth(n)]

\* HDNodeVoidWallet.deriveChild(index), for an index ser_I accepts.
VoidDeriveChildOfParentKey(n, index) ==
    [kind |-> "void", priv |-> -1, pub |-> n.pub,
     address |-> ComputeAddress(n.pub),
     fingerprint |-> Fingerprint(n.pub),
     accountFingerprint |-> n.fingerprint,
     chainCode |-> SerIR(index, n.chainCode, n.pub, -1),
     path |-> IF Truthy(n.path)
              THEN [n.path EXCEPT !.fields = Append(n.path.fields, index)]
              ELSE n.path,
     index |-> index, depth |-> n.depth + 1]
VoidDeriveChild(n, index) ==
    LET ki == AddPoints(SerIL(index, n.chainCode, n.pub, -1), n.pub)
    IN [kind |-> "void", priv |-> -1, pub |-> ki,
        address |-> ComputeAddress(ki),
        fingerprint |-> Fingerprint(ki),
        accountFingerprint |-> n.fingerprint,
        chainCode |-> SerIR(index, n.chainCode, n.pub, -1),
        path |-> IF Truthy(n.path)
                 THEN [n.path EXCEPT !.fields = Append(n.path.fields, index)]
                 ELSE n.path,
        index |-> index, depth |-> n.depth + 1]

\* HDNodeWallet.neuter()
Neuter(n) ==
    [kind |-> "void", priv |-> -1, pub |-> n.pub, address |-> n.address,
     fingerprint |-> Fingerprint(n.pub),
     accountFingerprint |-> n.accountFingerprint,
     chainCode |-> n.chainCode,
     path |-> IF n.path = NullPath THEN EmptyPath ELSE n.path,
     index |-> n.index, depth |-> n.depth]

\* derivePath(node, path) for a path of child indexes relative to the node:
\* deriveChild for each component in turn.
RECURSIVE DerivePathSkipsFirst(_, _)
RECURSIVE DerivePath(_, _)
DeriveChildOf(n, index) ==
    IF n.kind = "full" THEN FullDeriveChild(n, index) ELSE VoidDeriveChild(n, index)

DerivePathSkipsFirst(n, components) ==
    IF Len(components) <= 1 THEN n
    ELSE DerivePathSkipsFirst(DeriveChildOf(n, components[2]), Tail(components))

DerivePath(n, components) ==
    IF components = <<>> THEN n
    ELSE DerivePath(DeriveChildOf(n, Head(components)), Tail(components))

\* A component a node cannot derive: a hardened index on a neutered node.
RECURSIVE DerivePathFails(_, _)
DerivePathFails(n, components) ==
    IF components = <<>> THEN FALSE
    ELSE \/ SerIFails(Head(components), n.priv)
         \/ DerivePathFails(DeriveChildOf(n, Head(components)), Tail(components))

\* ------------------------------------------------------------------------
\* Extended keys. A Base58 string is written as the bytes it encodes: a
\* leading '1' of the string is a leading zero byte.
\* ------------------------------------------------------------------------
\* zpad(value, length), for length <= 4
Zpad(value, length) ==
    [i \in 1..length |-> (value \div (256 ^ (length - i))) % 256]

\* A 32-byte hex string of a scaled-down value.
Bytes32(value) == [i \in 1..32 |-> IF i = 32 THEN value ELSE 0]

\* parseInt(hexlify(bytes).substring(2), 16)
RECURSIVE ParseInt(_)
ParseInt(bytes) ==
    IF bytes = <<>> THEN 0
    ELSE 256 * ParseInt(SubSeq(bytes, 1, Len(bytes) - 1)) + bytes[Len(bytes)]

RECURSIVE SumBytes(_)
SumBytes(bytes) ==
    IF bytes = <<>> THEN 0 ELSE Head(bytes) + SumBytes(Tail(bytes))

\* The four checksum bytes of Base58Check (of sha256(sha256(payload))).
Checksum(payload) ==
    LET s == SumBytes(payload)
    IN <<s % 256, (s \div 256) % 256, (3 * s + 1) % 256, (7 * s + 5) % 256>>

EncodeBase58Check(payload) == payload \o Checksum(payload)

\* toBeArray(decodeBase58(text)): the number has no leading zero bytes.
RECURSIVE DecodeBase58(_)
DecodeBase58(text) ==
    IF text # <<>> /\ Head(text) = 0 THEN DecodeBase58(Tail(text)) ELSE text

\* bytes.slice(start, end) with 0-based start and exclusive end
Slice(bytes, start, end) ==
    SubSeq(bytes, start + 1, IF end > Len(bytes) THEN Len(bytes) ELSE end)

MainnetPrivate == <<4, 136, 173, 228>>
MainnetPublic == <<4, 136, 178, 30>>
TestnetPrivate == <<4, 53, 131, 148>>
TestnetPublic == <<4, 53, 135, 207>>

\* The 33 bytes of a compressed public key, of a private key after 0x00.
PublicKeyBytes(pub) == <<2>> \o Bytes32(pub)
PrivateKeyBytes(priv) == <<0>> \o Bytes32(priv)

\* HDNodeWallet.extendedKey and HDNodeVoidWallet.extendedKey (depth < 256)
ExtendedKeyPayload(n) ==
    (IF n.kind = "full" THEN MainnetPrivate ELSE MainnetPublic)
        \o Zpad(n.depth, 1) \o Zpad(n.accountFingerprint, 4)
        \o Zpad(n.index, 4) \o Bytes32(n.chainCode)
        \o (IF n.kind = "full" THEN PrivateKeyBytes(n.priv)
            ELSE PublicKeyBytes(n.pub))

ExtendedKey(n) == EncodeBase58Check(ExtendedKeyPayload(n))

\* HDNodeWallet.fromExtendedKey(extendedKey): the test of its first assert.
ExtendedKeyAccepted(text, bytes) ==
    Len(bytes) = 82 \/ EncodeBase58Check(Slice(bytes, 0, 78)) = text

\* The index read back from bytes 9..13.
ExtendedKeyIndexOfFingerprint(bytes) == ParseInt(Slice(bytes, 5, 9))
ExtendedKeyIndex(bytes) == ParseInt(Slice(bytes, 9, 13))

\* The node of the switch on the prefix; NoNode when no case returns.
ExtendedKeyNode(bytes) ==
    LET depth == bytes[5]
        accountFingerprint == ParseInt(Slice(bytes, 5, 9))
        index == ExtendedKeyIndex(bytes)
        chainCode == bytes[45]
        key == Slice(bytes, 45, 78)
        prefix == Slice(bytes, 0, 4)
    IN IF prefix \in {MainnetPublic, TestnetPublic}
       THEN [kind |-> "void", priv |-> -1, pub |-> key[33],
             address |-> ComputeAddress(key[33]),
             fingerprint |-> Fingerprint(key[33]),
             accountFingerprint |-> accountFingerprint,
             chainCode |-> chainCode, path |-> NullPath,
             index |-> index, depth |-> depth]
       ELSE IF prefix = MainnetPrivate /\ key[1] = 0
       THEN [kind |-> "full", priv |-> key[33], pub |-> PublicKey(key[33]),
             address |-> ComputeAddress(PublicKey(key[33])),
             fingerprint |-> Fingerprint(PublicKey(key[33])),
             accountFingerprint |-> accountFingerprint,
             chainCode |-> chainCode, path |-> NullPath,
             index |-> index, depth |-> depth]
       ELSE NoNode

\* HDNodeWallet.fromExtendedKey(extendedKey)
FromExtendedKeyError(text) ==
    LET bytes == DecodeBase58(text)
    IN IF ~ExtendedKeyAccepted(text, bytes) THEN "invalid extended key"
       ELSE IF ExtendedKeyNode(bytes) = NoNode THEN "invalid extended key prefix"
       ELSE "none"

FromExtendedKey(text) == ExtendedKeyNode(DecodeBase58(text))

\* ------------------------------------------------------------------------
\* Calls on an HD node. hd.node is the node in hand, hd.self the node the
\* last call was made on, hd.other the node of the second of two call
\* chains that are compared, or the node fromExtendedKey returned (the
\* node in hand stays the one whose key was written).
\* ------------------------------------------------------------------------
MaxHdSeed == 1
MaxDepth == 6

HdIndexes == {1, HardenedBit}

PathParts == {<<1>>, <<HardenedBit, 1>>}

HdCall(op, arg, result, other, err) ==
    [op |-> op, self |-> hd.node, arg |-> arg,
     node |-> IF err = "none" THEN result ELSE hd.node,
     other |-> other, err |-> err]

HdQuiet == UNCHANGED <<walletProvider, fx, qi, pvars, dvars, wvars>>

\* node.deriveChild(index)
DeriveChild(index) ==
    /\ hd.node.depth < MaxDepth
    /\ hd' = IF SerIFails(index, hd.node.priv)
             THEN HdCall("deriveChild", index, NoNode, NoNode, "hardened")
             ELSE HdCall("deriveChild", index,
                         DeriveChildOf(hd.node, index), NoNode, "none")
    /\ HdQuiet

\* node.neuter()
NeuterNode ==
    /\ hd.node.kind = "full"
    /\ hd' = HdCall("neuter", 0, Neuter(hd.node), NoNode, "none")
    /\ HdQuiet

\* node.derivePath(a + "/" + b), and node.derivePath(a).derivePath(b)
DerivePathTwice(a, b) ==
    /\ hd.node.depth + Len(a) + Len(b) <= MaxDepth
    /\ hd' = IF DerivePathFails(hd.node, a \o b)
             THEN HdCall("derivePath", <<a, b>>, NoNode, NoNode, "hardened")
             ELSE HdCall("derivePath", <<a, b>>,
                         DerivePath(hd.node, a \o b),
                         DerivePath(DerivePath(hd.node, a), b), "none")
    /\ HdQuiet

\* node.neuter().deriveChild(index), and node.deriveChild(index).neuter()
NeuterDeriveChild(index) ==
    /\ hd.node.kind = "full"
    /\ hd.node.depth < MaxDepth
    /\ index < HardenedBit
    /\ hd' = HdCall("neuterDeriveChild", index,
                    VoidDeriveChild(Neuter(hd.node), index),
                    Neuter(FullDeriveChild(hd.node, index)), "none")
    /\ HdQuiet

\* The texts handed to fromExtendedKey: the extended key of the node in
\* hand, and that key damaged in one way.
ExtendedKeyVariants ==
    {"valid", "badChecksum", "short", "long", "leadingOne", "unknownPrefix",
     "testnetPrivate", "testnetPublic", "keyNotZero"}

WithPrefix(payload, prefix) == prefix \o Slice(payload, 4, 78)

ExtendedKeyText(n, variant) ==
    LET payload == ExtendedKeyPayload(n)
        key == ExtendedKey(n)
    IN CASE variant = "valid" -> key
         [] variant = "badChecksum" ->
                [key EXCEPT ![82] = (key[82] + 1) % 256]
         [] variant = "short" -> SubSeq(key, 1, 81)
         [] variant = "long" -> Append(key, 0)
         [] variant = "leadingOne" -> <<0>> \o key
         [] variant = "unknownPrefix" ->
                EncodeBase58Check(WithPrefix(payload, <<1, 2, 3, 4>>))
         [] variant = "testnetPrivate" ->
                EncodeBase58Check(WithPrefix(payload, TestnetPrivate))
         [] variant = "testnetPublic" ->
                EncodeBase58Check(WithPrefix(payload, TestnetPublic))
         [] variant = "keyNotZero" ->
                EncodeBase58Check([payload EXCEPT ![46] = 1])

\* HDNodeWallet.fromExtendedKey(text)
FromExtendedKeyCall(variant) ==
    /\ variant = "testnetPublic" => hd.node.kind = "void"
    /\ variant = "keyNotZero" => hd.node.kind = "full"
    /\ LET text == ExtendedKeyText(hd.node, variant)
       IN hd' = HdCall("fromExtendedKey", variant, hd.node,
                       IF FromExtendedKeyError(text) = "none"
                       THEN FromExtendedKey(text) ELSE NoNode,
                       FromExtendedKeyError(text))
    /\ HdQuiet

HdInit ==
    /\ ProviderIdle
    /\ DeriveIdle
    /\ WalletIdle
    /\ NoProvider
    /\ FxIdle
    /\ QiIdle
    /\ \E sd \in 0..MaxHdSeed :
          hd = [op |-> "fromSeed", self |-> NoNode, arg |-> sd,
                node |-> FromSeed(sd), other |-> NoNode, err |-> "none"]

HdNext ==
    \/ \E index \in HdIndexes : DeriveChild(index)
    \/ NeuterNode
    \/ \E a \in PathParts, b \in PathParts : DerivePathTwice(a, b)
    \/ \E index \in HdIndexes : NeuterDeriveChild(index)
    \/ \E variant \in ExtendedKeyVariants : FromExtendedKeyCall(variant)

SpecHD == HdInit /\ [][HdNext]_vars

\* C13: every deriveChild, of a full or a neutered node, returns a node
\* whose depth is exactly the depth of the node it was called on plus one.
ChildIsOneDeeper ==
    (hd.op = "deriveChild" /\ hd.err = "none") => hd.node.depth = hd.self.depth + 1

\* The child was derived from a node whose path has six fields.
SiblingDerived ==
    /\ hd.op = "deriveChild"
    /\ hd.err = "none"
    /\ hd.self.kind = "full"
    /\ PathFieldsLength(hd.self.path) = 6

SameNode(n, m) ==
    /\ n.kind = m.kind
    /\ n.priv = m.priv
    /\ n.pub = m.pub
    /\ n.chainCode = m.chainCode
    /\ n.index = m.index
    /\ n.depth = m.depth
    /\ n.path = m.path

NeuterCommutes ==
    hd.op = "neuterDeriveChild" => hd.node.address = hd.other.address

\* The two were compared for a node below the root whose child has another
\* address than the node itself.
NeuterCompared ==
    /\ hd.op = "neuterDeriveChild"
    /\ hd.self.depth >= 2
    /\ hd.arg = 1
    /\ hd.node.address # hd.self.address

\* C16: fromExtendedKey of the extended key of a node succeeds and returns
\* a node of the same kind with the same address, chain code, depth and
\* index.
ExtendedKeyRoundTrip ==
    (hd.op = "fromExtendedKey" /\ hd.arg = "valid") =>
        /\ hd.err = "none"
        /\ hd.other.kind = hd.self.kind
        /\ hd.other.address = hd.self.address
        /\ hd.other.chainCode = hd.self.chainCode
        /\ hd.other.depth = hd.self.depth
        /\ hd.other.index = hd.self.index

\* The key of a neutered node with a hardened index, below the account
\* level, went through the round trip.
NeuteredRoundTrip ==
    /\ hd.op = "fromExtendedKey"
    /\ hd.arg = "valid"
    /\ hd.err = "none"
    /\ hd.self.kind = "void"
    /\ hd.self.depth >= 3
    /\ hd.self.index = HardenedBit
    /\ hd.self.accountFingerprint # 0

WrongLength(text) == Len(text) # 82

BadChecksum(text) ==
    Len(text) < 4 \/ Slice(text, Len(text) - 4, Len(text))
                        # Checksum(Slice(text, 0, Len(text) - 4))

UnknownPrefix(text) ==
    Slice(text, 0, 4) \notin
        {MainnetPrivate, MainnetPublic, TestnetPrivate, TestnetPublic}

\* C17: fromExtendedKey fails for a text of the wrong total length, with a
\* checksum that does not validate, or with a prefix that is not one of the
\* version prefixes; it returns a node only when all of these are valid.
DamagedKeyRejected ==
    hd.op = "fromExtendedKey" =>
        LET text == ExtendedKeyText(hd.self, hd.arg)
        IN (WrongLength(text) \/ BadChecksum(text) \/ UnknownPrefix(text))
              => hd.err \in {"invalid extended key", "invalid extended key prefix"}

\* ------------------------------------------------------------------------
\* Wallet.fromPhrase. A string is the sequence of its characters, a path
\* the sequence of its segments (path.split('/')).
\* ------------------------------------------------------------------------
MaxPhrase == 1

Digits == <<"0", "1", "2", "3", "4", "5", "6", "7", "8", "9">>

IsDigit(c) == \E d \in 1..10 : Digits[d] = c

DigitValue(c) == (CHOOSE d \in 1..10 : Digits[d] = c) - 1

\* n.toString() for n >= 0
RECURSIVE NumberToString(_)
NumberToString(n) ==
    IF n < 10 THEN <<Digits[n + 1]>>
    ELSE Append(NumberToString(n \div 10), Digits[(n % 10) + 1])

\* coinTypeStr.replace("'", ""): the first apostrophe is removed.
RECURSIVE ReplaceApostrophe(_)
ReplaceApostrophe(str) ==
    IF str = <<>> THEN <<>>
    ELSE IF Head(str) = "'" THEN Tail(str)
    ELSE <<Head(str)>> \o ReplaceApostrophe(Tail(str))

\* The digits a string starts with.
RECURSIVE LeadingDigits(_)
LeadingDigits(str) ==
    IF str = <<>> \/ ~IsDigit(Head(str)) THEN <<>>
    ELSE <<Head(str)>> \o LeadingDigits(Tail(str))

RECURSIVE DigitsValue(_)
DigitsValue(ds) ==
    IF ds = <<>> THEN 0
    ELSE 10 * DigitsValue(SubSeq(ds, 1, Len(ds) - 1)) + DigitValue(ds[Len(ds)])

\* parseInt(str): the number its leading digits write, NaN (-1) when it
\* starts with none.
NaN == -1

ParseIntDecimal(str) ==
    IF LeadingDigits(str) = <<>> THEN NaN ELSE DigitsValue(LeadingDigits(str))

\* The switch on the coin type.
WalletKindAccountOnly(coinType) ==
    IF coinType \in {994, 969} THEN "QuaiHDWallet" ELSE "Unsupported cointype"
WalletKind(coinType) ==
    CASE coinType = 994 -> "QuaiHDWallet"
      [] coinType = 969 -> "QiHDWallet"
      [] OTHER -> "Unsupported cointype"

\* Wallet.fromPhrase(phrase, path, provider): what it returns or throws.
FromPhraseResult(path) ==
    IF Len(path) < 3 THEN "Incomplete path"
    ELSE WalletKind(ParseIntDecimal(ReplaceApostrophe(path[3])))

PathCoinTypes == {0, 60, 96, 969, 994, 9940}

CoinTypeSegments ==
    {NumberToString(c) : c \in PathCoinTypes}
        \cup {Append(NumberToString(c), "'") : c \in PathCoinTypes}
        \cup {<<>>, <<"'">>, <<"x", "9", "9", "4">>, <<"-", "9", "6", "9", "'">>}

PhrasePaths ==
    {<<(<<"m">>)>>, <<(<<"m">>), (<<"4", "4", "'">>)>>}
        \cup {<<(<<"m">>), (<<"4", "4", "'">>), ct>> : ct \in CoinTypeSegments}
        \cup {<<(<<"m">>), (<<"4", "4", "'">>), ct, (<<"0", "'">>), (<<"0">>)>> :
                 ct \in CoinTypeSegments}

FromPhrase(phrase, path, provider) ==
    /\ fx' = [op |-> "fromPhrase", phrase |-> phrase, path |-> path,
              provider |-> provider, result |-> FromPhraseResult(path),
              wallet |-> IF FromPhraseResult(path) \in {"QuaiHDWallet", "QiHDWallet"}
                         THEN [kind |-> FromPhraseResult(path), phrase |-> phrase,
                               path |-> path, connected |-> provider]
                         ELSE [kind |-> "none"]]
    /\ UNCHANGED <<walletProvider, hd, qi, pvars, dvars, wvars>>

\* ------------------------------------------------------------------------
\* toShard
\* ------------------------------------------------------------------------
ZoneBytes ==
    {"0x00", "0x01", "0x02", "0x10", "0x11", "0x12", "0x20", "0x21", "0x22"}

\* shardFromBytes(shard): the member of Shard with that value, or the error.
ShardFromBytes(shard) ==
    IF shard \in ZoneBytes THEN shard ELSE "Invalid shard"

\* ShardData.find(it => it.name == shard || it.byte == shard ||
\* it.nickname == shard || it.shard == shard)?.byte || ''
FoundByte(shard) ==
    LET hits == {k \in 1..Len(ShardData) :
                    \/ ShardData[k].name = shard
                    \/ ShardData[k].byte = shard
                    \/ ShardData[k].nickname = shard
                    \/ ShardData[k].shard = shard}
    IN IF hits = {} THEN ""
       ELSE ShardData[CHOOSE k \in hits : \A j \in hits : k <= j].byte

\* toShard(shard)
ToShard(shard) == ShardFromBytes(FoundByte(shard))

IdentifiersOf(k) ==
    {ShardData[k].name, ShardData[k].nickname, ShardData[k].byte,
     ShardData[k].shard}

ShardIdentifiers ==
    UNION {IdentifiersOf(k) : k \in 1..Len(ShardData)}
        \cup {"", "Atlantis", "CYPRUS1", "0X00", "0x3", "zone-3-0", "region-3"}

ToShardCall(shard) ==
    /\ fx' = [op |-> "toShard", arg |-> shard, result |-> ToShard(shard)]
    /\ UNCHANGED <<walletProvider, hd, qi, pvars, dvars, wvars>>

\* ------------------------------------------------------------------------
\* The static functions: no object is built before they are called.
\* ------------------------------------------------------------------------
StaticInit ==
    /\ ProviderIdle
    /\ DeriveIdle
    /\ WalletIdle
    /\ NoProvider
    /\ HdIdle
    /\ FxIdle
    /\ QiIdle

StaticNext ==
    \/ \E phrase \in 0..MaxPhrase, path \in PhrasePaths, provider \in BOOLEAN :
          FromPhrase(phrase, path, provider)
    \/ \E shard \in ShardIdentifiers : ToShardCall(shard)

SpecStatic == StaticInit /\ [][StaticNext]_vars

\* The path's coin-type segment writes the number c, hardened or not.
CoinTypeIs(path, c) ==
    Len(path) >= 3 /\ path[3] \in {NumberToString(c), Append(NumberToString(c), "'")}

ToShardTotal ==
    fx.op = "toShard" =>
        /\ \A k \in 1..Len(ShardData) :
              fx.arg \in IdentifiersOf(k) => fx.result = ShardData[k].byte
        /\ (\A k \in 1..Len(ShardData) : fx.arg \notin IdentifiersOf(k))
              => fx.result = "Invalid shard"

\* ------------------------------------------------------------------------
\* QiHDWallet.signTransaction and the verification of its signature.
\* Keys, points and hashes are those of the HD nodes: numbers mod
\* CurveOrder. A signature is the pair of its nonce point R and scalar s.
\* ------------------------------------------------------------------------
MaxInputs == 3

QiKeys == 1..(CurveOrder - 1)

\* The private keys of the addresses the wallet holds.
QiOwnedKeys == 1..(CurveOrder - 2)

Digests == {0, 1}

RECURSIVE SumSeq(_)
SumSeq(xs) == IF xs = <<>> THEN 0 ELSE Head(xs) + SumSeq(Tail(xs))

\* The challenge of a Schnorr signature: the hash of R, the key and the
\* digest.
Challenge(r, pub, digest) == (3 * r + 2 * pub + digest + 1) % CurveOrder

\* schnorr.verify(signature, digest, pubkey)
VerifySchnorrSignature(signature, digest, pubkey) ==
    PublicKey(signature.s)
        = (signature.r + Challenge(signature.r, pubkey, digest) * pubkey) % CurveOrder

\* musig.keyAgg(pubkeys): the coefficient of a key, and the aggregated key.
KeyAggCoefficient(pubkeys, i) == (SumSeq(pubkeys) + 2 * pubkeys[i] + i) % CurveOrder

KeyAgg(pubkeys) ==
    SumSeq([i \in 1..Len(pubkeys) |-> KeyAggCoefficient(pubkeys, i) * pubkeys[i]])
        % CurveOrder

\* verifyMusigSignature(signature, digest, publicKeysArray)
VerifyMusigSignature(signature, digest, publicKeysArray) ==
    VerifySchnorrSignature(signature, digest, KeyAgg(publicKeysArray))

\* The nonce of signer i.
NonceOf(nonce, i) == (nonce + i) % CurveOrder

\* A Schnorr signature of the digest with one private key.
SchnorrSign(priv, digest, nonce) ==
    LET r == PublicKey(NonceOf(nonce, 1))
    IN [r |-> r,
        s |-> (NonceOf(nonce, 1) + Challenge(r, PublicKey(priv), digest) * priv)
                  % CurveOrder]

\* A MuSig2 signature of the digest with the private keys of all inputs.
MuSigSignWithoutCoefficients(privs, digest, nonce) ==
    LET pubkeys == [i \in 1..Len(privs) |-> PublicKey(privs[i])]
        r == SumSeq([i \in 1..Len(privs) |-> PublicKey(NonceOf(nonce, i))])
                 % CurveOrder
        e == Challenge(r, KeyAgg(pubkeys), digest)
    IN [r |-> r,
        s |-> SumSeq([i \in 1..Len(privs) |-> NonceOf(nonce, i) + e * privs[i]])
                  % CurveOrder]
MuSigSign(privs, digest, nonce) ==
    LET pubkeys == [i \in 1..Len(privs) |-> PublicKey(privs[i])]
        r == SumSeq([i \in 1..Len(privs) |-> PublicKey(NonceOf(nonce, i))])
                 % CurveOrder
        e == Challenge(r, KeyAgg(pubkeys), digest)
    IN [r |-> r,
        s |-> SumSeq([i \in 1..Len(privs) |->
                         NonceOf(nonce, i)
                           + e * KeyAggCoefficient(pubkeys, i) * privs[i]])
                  % CurveOrder]

\* QiHDWallet.signTransaction(tx), for a transaction whose inputs carry the
\* public keys of privs.
QiSignTransaction(privs, digest, nonce) ==
    /\ fx' = [op |-> "qiSignTransaction",
              pubkeys |-> [i \in 1..Len(privs) |-> PublicKey(privs[i])],
              digest |-> digest,
              owned |-> \A i \in 1..Len(privs) : privs[i] \in QiOwnedKeys,
              signature |->
                  IF \E i \in 1..Len(privs) : privs[i] \notin QiOwnedKeys
                  THEN [r |-> -1, s |-> -1]
                  ELSE IF Len(privs) = 1
                  THEN SchnorrSign(privs[1], digest, nonce)
                  ELSE MuSigSign(privs, digest, nonce)]
    /\ UNCHANGED <<walletProvider, hd, qi, pvars, dvars, wvars>>

QiInit ==
    /\ ProviderIdle
    /\ DeriveIdle
    /\ WalletIdle
    /\ NoProvider
    /\ HdIdle
    /\ FxIdle
    /\ QiIdle

QiNext ==
    \E n \in 1..MaxInputs, digest \in Digests, nonce \in QiKeys :
        \E privs \in [1..n -> QiKeys] : QiSignTransaction(privs, digest, nonce)

SpecQi == QiInit /\ [][QiNext]_vars

\* C20: the signature of a signed Qi transaction whose inputs the wallet
\* owns verifies, over the digest, against the MuSig2-aggregated key of the
\* inputs' public keys when it has more than one input, and against the
\* public key of its input when it has exactly one.
QiSignatureVerifies ==
    (fx.op = "qiSignTransaction" /\ fx.owned) =>
        IF Len(fx.pubkeys) > 1
        THEN VerifyMusigSignature(fx.signature, fx.digest, fx.pubkeys)
        ELSE VerifySchnorrSignature(fx.signature, fx.digest, fx.pubkeys[1])

\* A transaction with three inputs of three different keys was signed.
ThreeInputsSigned ==
    /\ fx.op = "qiSignTransaction"
    /\ fx.owned
    /\ Len(fx.pubkeys) = 3
    /\ Cardinality({fx.pubkeys[i] : i \in 1..3}) = 3
    /\ fx.signature.s # 0

\* ------------------------------------------------------------------------
\* Claims about the order of WebSocketProvider.initUrlMap
\* ------------------------------------------------------------------------
HandshakeDone(shard) ==
    \E c \in 1..Len(chans) :
        /\ chans[c].shard = shard
        /\ chans[c].state # "connecting"
        /\ chans[c].hs = "ok"

PrimeBeforeZones ==
    /\ (init.pc \in {"getLocations", "waitZones", "done"}
          \/ \E c \in 1..Len(chans) : chans[c].shard # Prime)
        => HandshakeDone(Prime)
    /\ init.pc = "done" => \A s \in Shards : HandshakeDone(s) /\ readyMap[s] # "unset"

InitWaitTimedOut ==
    \/ init.pc = "waitPrime" /\ TimedOut(init.count) /\ init' # init
    \/ /\ init.pc = "waitZones"
       /\ \E i \in 1..Len(RunningLocations) :
             /\ init.zones[i].st = "sleeping"
             /\ TimedOut(init.zones[i].count)
             /\ init'.zones # init.zones

\* C23: initUrlMap is ordered. A Prime channel was opened and its flag seen
\* ready before the running locations are asked for and before any zone
\* channel exists; the promise resolves only when every advertised shard
\* has had its flag set by a finished handshake; it fails when a readiness
\* wait times out, and a failed promise never resolves.
InitOrdered ==
    /\ []PrimeBeforeZones
    /\ [][/\ InitWaitTimedOut => init'.pc = "failed"
          /\ init.pc = "failed" => init'.pc = "failed"]_vars

\* The promise resolved for two urls, with two Prime and two zone channels.
InitDoneTwoUrls ==
    /\ init.pc = "done"
    /\ init.nurls = 2
    /\ Len(chans) = 4
    /\ ~destroyed

\* ------------------------------------------------------------------------
\* The Qi wallets of one zone: the outpoints on the ledger, the outpoints
\* each wallet holds available, and two sends (coin selection, signing,
\* broadcast, confirmation). qi.att[k] is send k.
\* ------------------------------------------------------------------------
MaxAmount == 2

\* The estimated fee of a transaction.
QiFee == 1

Owners == {"A", "B"}

Attempts == {1, 2}

OtherOwner(w) == IF w = "A" THEN "B" ELSE "A"

\* The denominations of the outpoints a wallet holds at the start, in the
\* order of their ids.
StartValues == {<<>>, <<2>>, <<3, 3>>, <<5, 2, 1>>}

StartOutpoints(w, values, base) ==
    {[id |-> base + i, owner |-> w, value |-> values[i]] : i \in 1..Len(values)}

RECURSIVE SumValues(_)
SumValues(outpoints) ==
    IF outpoints = {} THEN 0
    ELSE LET o == CHOOSE x \in outpoints : TRUE
         IN o.value + SumValues(outpoints \ {o})

\* getBalanceForZone(zone): the sum of the outpoints the wallet holds.
Balance(w) == SumValues(qi.avail[w])

\* The first outpoint in descending order of denomination.
Largest(outpoints) ==
    CHOOSE o \in outpoints :
        \A x \in outpoints : x.value < o.value \/ (x.value = o.value /\ x.id >= o.id)

\* Fewest coins: take the largest outpoints until their sum covers the
\* target (amount plus fee).
RECURSIVE FewestCoins(_, _)
FewestCoins(outpoints, target) ==
    IF target <= 0 \/ outpoints = {} THEN {}
    ELSE LET o == Largest(outpoints)
         IN {o} \cup FewestCoins(outpoints \ {o}, target - o.value)

\* The available set after a selection: the selected outpoints are locked.
AvailableAfterSelectKeepsAll(available, selected) == available
AvailableAfterSelect(available, selected) == available \ selected

\* The outpoints a wallet has locked in sends that are under way.
Locked(w) ==
    UNION {qi.att[k].sel : k \in {j \in Attempts :
               qi.att[j].from = w /\ qi.att[j].pc \in {"selected", "broadcast"}}}

\* The change output of a transaction.
ChangeValueWithoutFee(total, amount) == total - amount
ChangeValue(total, amount) == total - amount - QiFee

IdleAttempt == [pc |-> "idle", from |-> "-", amount |-> 0, sel |-> {}]

QiQuiet == UNCHANGED <<walletProvider, hd, fx, pvars, dvars, wvars>>

\* sendTransaction of wallet w: coin selection, run to its end in one step.
QiSelect(k, w, amount) ==
    /\ qi.att[k].pc = "idle"
    /\ LET target == amount + QiFee
           selected == FewestCoins(qi.avail[w], target)
       IN IF SumValues(qi.avail[w]) < target
          THEN qi' = [qi EXCEPT !.att[k] =
                         [IdleAttempt EXCEPT !.pc = "insufficient", !.from = w,
                                             !.amount = amount]]
          ELSE qi' = [qi EXCEPT
                        !.att[k] = [pc |-> "selected", from |-> w,
                                    amount |-> amount, sel |-> selected],
                        !.avail[w] = AvailableAfterSelect(qi.avail[w], selected)]
    /\ QiQuiet

\* Signing failed: the selected outpoints go back to the available set.
QiSignFails(k) ==
    /\ qi.att[k].pc = "selected"
    /\ qi' = [qi EXCEPT
                !.att[k].pc = "failed",
                !.avail[qi.att[k].from] = qi.avail[qi.att[k].from] \cup qi.att[k].sel]
    /\ QiQuiet

\* The signed transaction was broadcast.
QiBroadcast(k) ==
    /\ qi.att[k].pc = "selected"
    /\ qi' = [qi EXCEPT !.att[k].pc = "broadcast"]
    /\ QiQuiet

\* tx.wait(): the ledger confirms the transaction, spending its inputs and
\* creating the payment and the change; or rejects it when an input is
\* already spent.
QiConfirm(k) ==
    /\ qi.att[k].pc = "broadcast"
    /\ LET a == qi.att[k]
           change == ChangeValue(SumValues(a.sel), a.amount)
           payment == [id |-> qi.nextId, owner |-> OtherOwner(a.from),
                       value |-> a.amount]
           rest == IF change > 0
                   THEN {[id |-> qi.nextId + 1, owner |-> a.from, value |-> change]}
                   ELSE {}
       IN IF a.sel \subseteq qi.utxo
          THEN qi' = [qi EXCEPT
                        !.att[k].pc = "confirmed",
                        !.utxo = (qi.utxo \ a.sel) \cup {payment} \cup rest,
                        !.nextId = qi.nextId + 2,
                        !.synced = [w \in Owners |-> FALSE]]
          ELSE qi' = [qi EXCEPT !.att[k].pc = "rejected"]
    /\ QiQuiet

\* sync(zone): the wallet's outpoints are read from the ledger again; what
\* a send under way has locked stays locked.
QiSync(w) ==
    /\ ~qi.synced[w]
    /\ qi' = [qi EXCEPT
                !.avail[w] = {o \in qi.utxo : o.owner = w} \ Locked(w),
                !.synced[w] = TRUE]
    /\ QiQuiet

LedgerInit ==
    /\ ProviderIdle
    /\ DeriveIdle
    /\ WalletIdle
    /\ NoProvider
    /\ HdIdle
    /\ FxIdle
    /\ \E va \in StartValues \ {<<>>}, vb \in {<<>>, <<2>>} :
          LET outpoints == StartOutpoints("A", va, 0) \cup StartOutpoints("B", vb, 3)
          IN qi = [op |-> "ledger",
                   utxo |-> outpoints,
                   avail |-> [w \in Owners |-> {o \in outpoints : o.owner = w}],
                   synced |-> [w \in Owners |-> TRUE],
                   initial |-> [w \in Owners |->
                                   SumValues({o \in outpoints : o.owner = w})],
                   att |-> [k \in Attempts |-> IdleAttempt],
                   nextId |-> 5]

LedgerNext ==
    \/ \E k \in Attempts, w \in Owners, amount \in 1..MaxAmount : QiSelect(k, w, amount)
    \/ \E k \in Attempts : QiSignFails(k)
    \/ \E k \in Attempts : QiBroadcast(k)
    \/ \E k \in Attempts : QiConfirm(k)
    \/ \E w \in Owners : QiSync(w)

SpecLedger == LedgerInit /\ [][LedgerNext]_vars

Active(k) == qi.att[k].pc \in {"selected", "broadcast"}

\* C21: of two coin selections of one wallet under way at once, no
\* outpoint is selected by both, and no outpoint a selection has locked is
\* in the wallet's available set.
NoDoubleSelection ==
    /\ \A j \in Attempts, k \in Attempts :
          (j # k /\ Active(j) /\ Active(k) /\ qi.att[j].from = qi.att[k].from)
              => qi.att[j].sel \cap qi.att[k].sel = {}
    /\ \A k \in Attempts :
          Active(k) => qi.att[k].sel \cap qi.avail[qi.att[k].from] = {}

\* Two selections of wallet A are under way at once, one of them holding
\* two outpoints.
TwoSelectionsUnderWay ==
    /\ \A k \in Attempts : Active(k) /\ qi.att[k].from = "A"
    /\ \E k \in Attempts : Cardinality(qi.att[k].sel) = 2

Settled(k) ==
    /\ qi.att[k].pc = "confirmed"
    /\ \A j \in Attempts \ {k} : qi.att[j].pc \in {"idle", "insufficient", "failed"}
    /\ \A w \in Owners : qi.synced[w]

\* C22: after a send of X from one wallet to the other was confirmed and
\* both wallets have synced, the receiver's balance has grown by exactly X
\* and the sender's has shrunk by more than X.
TransferSettles ==
    \A k \in Attempts : Settled(k) =>
        /\ Balance(OtherOwner(qi.att[k].from))
              = qi.initial[OtherOwner(qi.att[k].from)] + qi.att[k].amount
        /\ Balance(qi.att[k].from) < qi.initial[qi.att[k].from] - qi.att[k].amount

\* A send of two outpoints that left change was confirmed and synced, the
\* other send having failed at signing.
SettledWithChange ==
    \E k \in Attempts :
        /\ Settled(k)
        /\ Cardinality(qi.att[k].sel) = 2
        /\ Balance(qi.att[k].from) > 0
        /\ \E j \in Attempts : qi.att[j].pc = "failed"

\* ------------------------------------------------------------------------
\* Claims about the address map of QuaiHDWallet
\* ------------------------------------------------------------------------
\* C24: a successful getNextAddress(account, zone) returns and stores an
\* address of the requested zone that was not in the map, at an index
\* greater than every index stored for that account and zone.
NextAddressIsFresh ==
    [][(last'.op = "getNextAddress" /\ last'.result = "ok") =>
        /\ GetZoneForAddress(last'.account, last'.index) = last'.zone
        /\ \A e \in addresses :
              (e.account = last'.account /\ e.zone = last'.zone)
                  => e.index < last'.index
        /\ \A e \in addresses : e.address # AddressOf(last'.account, last'.index)
        /\ AddressInfo(last'.account, last'.index, last'.zone) \in addresses']_vars

\* getNextAddress succeeded for an account and zone that already held an
\* address, skipping an index on its way.
NextAddressAfterStored ==
    /\ last.op = "getNextAddress"
    /\ last.result = "ok"
    /\ \E e \in addresses :
          /\ e.account = last.account
          /\ e.zone = last.zone
          /\ e.index + 1 < last.index

\* ------------------------------------------------------------------------
\* Claims about the ledger style of derived addresses
\* ------------------------------------------------------------------------
\* The addresses below addrIndex that are in the zone searched and whose
\* ledger style is the given one.
ZoneAddressesOfStyle(utxo) ==
    {j \in 0..(dv.addrIndex - 1) :
        InZone(j) /\ IsUTXOAddress(seed, node.account, j) = utxo}

\* C25: a search of deriveAddress counts an address only when its ledger
\* style agrees with the coin type: a node of coin type 969 counts and
\* returns only UTXO-style addresses, one of coin type 994 only
\* account-style addresses.
StyleAgreesWithCoinType ==
    (dv.pc \in {"loop", "done"} /\ dv.zone # NoZone) =>
        /\ node.coinType = 969 =>
              /\ dv.matched = Cardinality(ZoneAddressesOfStyle(TRUE))
              /\ dv.pc = "done" => IsUTXOAddress(seed, node.account, dv.newWallet)
        /\ node.coinType = 994 =>
              /\ dv.matched = Cardinality(ZoneAddressesOfStyle(FALSE))
              /\ dv.pc = "done" => ~IsUTXOAddress(seed, node.account, dv.newWallet)

\* A node of coin type 969 returned a UTXO-style address after passing an
\* account-style address of the zone.
QiSearchPassedAccountStyle ==
    /\ dv.pc = "done"
    /\ dv.zone # NoZone
    /\ node.coinType = 969
    /\ ZoneAddressesOfStyle(FALSE) # {}
    /\ IsUTXOAddress(seed, node.account, dv.newWallet)

\* ------------------------------------------------------------------------
\* Claims about the channel a write sends on
\* ------------------------------------------------------------------------
\* C26: no write sends its payload on a channel that destroy() has closed;
\* a write that was waiting for readiness when destroy() ran does not
\* send afterwards.
NoSendOnClosedChannel ==
    \A w \in Writers :
        writers[w].pc = "sent" => writers[w].cst # "closed"

\* C27: a write addressed to a shard sends only on a channel whose own
\* onopen handshake has completed.
SendsOnlyOnStartedChannel ==
    \A w \in Writers :
        (writers[w].pc = "sent" /\ writers[w].shard # NoShard)
            => writers[w].chs = "ok"

\* ------------------------------------------------------------------------
\* Claims about the path of derived nodes
\* ------------------------------------------------------------------------
\* C28: two full nodes derived from one root by deriveChild or derivePath
\* that have the same path have the same private key, chain code and
\* address: here the node a call was made on and the node it returned.
SamePathSameNode ==
    (/\ hd.op \in {"deriveChild", "derivePath"}
     /\ hd.err = "none"
     /\ hd.self.kind = "full"
     /\ Truthy(hd.self.path)
     /\ hd.node.path = hd.self.path) =>
        /\ hd.node.priv = hd.self.priv
        /\ hd.node.chainCode = hd.self.chainCode
        /\ hd.node.address = hd.self.address

\* ------------------------------------------------------------------------
\* Claims about the entries of the address map
\* ------------------------------------------------------------------------
\* C29: addAddress(account, index) is not rejected as 'already exists'
\* when the index is so far used only by entries of other accounts.
AddAddressScopedToAccount ==
    [][(/\ last'.op = "addAddress"
        /\ \E e \in addresses : e.index = last'.index
        /\ \A e \in addresses : e.index = last'.index => e.account # last'.account)
            => last'.result # "exists"]_vars

\* C30: every entry of the map is stored under its own address, its zone
\* is the zone its address classifies into, and no two entries share an
\* account and index.
AddressMapConsistent ==
    /\ \A e \in addresses :
          /\ e.address = AddressOf(e.account, e.index)
          /\ e.pubKey = PublicKeyOf(e.account, e.index)
          /\ e.zone = GetZoneForAddress(e.account, e.index)
    /\ \A e \in addresses, f \in addresses :
          (e.account = f.account /\ e.index = f.index) => e = f
    /\ \A e \in addresses, f \in addresses : e.address = f.address => e = f

\* The map holds entries of both accounts and both zones, one of them
\* stored by getNextAddress at an index another account also uses.
MapOfBothAccounts ==
    /\ \A a \in Accounts : \E e \in addresses : e.account = a
    /\ \A z \in Zones : \E e \in addresses : e.zone = z
    /\ last.op = "getNextAddress"
    /\ last.result = "ok"
    /\ \E e \in addresses : e.index = last.index /\ e.account # last.account

====
